---- MODULE Spec2Model ----
(***************************************************************************)
(* Model of the DAL keystore context registry (Intel Keystore Linux        *)
(* driver): the global list of client contexts, the list of key slots of   *)
(* each context, and the allocate / find / free operations on both.        *)
(***************************************************************************)
EXTENDS Integers, Sequences, FiniteSets, TLC

(* ------------------------------------------------------------------ *)
(* Sizes.  The capacities and buffer lengths of dal_context.h, scaled    *)
(* down to small values.                                                *)
(* ------------------------------------------------------------------ *)
DAL_KEYSTORE_CLIENTS_MAX == 2

DAL_KEYSTORE_SLOTS_MAX == 2

KEYSTORE_CLIENT_TICKET_SIZE == 2

KEYSTORE_MAX_WRAPPED_KEY_SIZE == 2

\* Number of API calls a behaviour may issue.
MaxOps == 5

NULL == 0

EFAULT == 14

EINVAL == 22

\* Addresses kzalloc can hand out for a context: one more than the registry
\* can hold, so that a freed address can be reused or stay unused.
CtxAddrs == 1..(DAL_KEYSTORE_CLIENTS_MAX + 1)

Bytes == {0, 1}

Zeros(n) == [i \in 1..n |-> 0]

Tickets == [1..KEYSTORE_CLIENT_TICKET_SIZE -> Bytes]

\* A NULL client_ticket pointer.
NullTicket == <<>>

\* Key material the owning layer stores in a slot: (bytes, size).
KeyImages == {[wrapped_key |-> [i \in 1..KEYSTORE_MAX_WRAPPED_KEY_SIZE |->
                                  IF i <= n THEN 1 ELSE 0],
               wrapped_key_size |-> n] : n \in 1..KEYSTORE_MAX_WRAPPED_KEY_SIZE}

\* Threads that call into the registry at the same time.
NThreads == 2

Threads == 1..NThreads

VARIABLES
  dal_contexts,  \* the global list of contexts, head first
  heap,          \* the context chunks, by address
  released,      \* images of the slot chunks given back to the allocator
  last,          \* the last call made one at a time, with what it returned
  nops,          \* number of calls issued
  thr,           \* per thread: where it is in a call, and the call's locals
  corrupt,       \* a thread wrote to, unlinked or released a chunk that
                 \* had already been released
  alloc_order,   \* history: the live contexts, oldest allocation first
  ever_freed     \* history: the addresses of contexts released so far, to
                 \* which a caller may still hold a reference

vars == <<dal_contexts, heap, released, last, nops, thr, corrupt,
          alloc_order, ever_freed>>

(* ------------------------------------------------------------------ *)
(* Memory.                                                              *)
(* ------------------------------------------------------------------ *)
\* kzalloc of a struct dal_keystore_slot: all fields zero.
ZeroSlot == [slot_id |-> 0,
             wrapped_key |-> Zeros(KEYSTORE_MAX_WRAPPED_KEY_SIZE),
             wrapped_key_size |-> 0]

\* A context chunk that is not allocated (zeroed by kzfree / never used).
DeadCtx == [live |-> FALSE,
            client_ticket |-> Zeros(KEYSTORE_CLIENT_TICKET_SIZE),
            slots |-> <<>>]

\* Mutant: the chunk comes from kmalloc and keeps its old bytes.
init_context_struct_dirty ==
  [DeadCtx EXCEPT !.live = TRUE, !.slots = <<>>,
                  !.client_ticket = [i \in 1..KEYSTORE_CLIENT_TICKET_SIZE |-> 1]]

\* kzalloc of a struct dal_keystore_ctx followed by init_context_struct.
init_context_struct == [DeadCtx EXCEPT !.live = TRUE, !.slots = <<>>]

\* kzfree: memset(obj, 0, ksize(obj)) and then kfree.  The result is the
\* image the released chunk holds.
kzfree(obj) == IF "slot_id" \in DOMAIN obj THEN ZeroSlot ELSE DeadCtx

\* Mutant: list_add_tail, the new entry goes to the end of the list.
list_add_tail(new, list) == list \o <<new>>

\* list_add(new, head): insert new right after head, i.e. at the front.
list_add(new, list) == <<new>> \o list

\* list_del of the i-th entry.
list_del(list, i) == SubSeq(list, 1, i - 1) \o SubSeq(list, i + 1, Len(list))

\* memcmp(a, b, n): 0 iff the first n bytes agree.
RECURSIVE memcmp_from(_, _, _, _)
memcmp_from(a, b, i, n) ==
  IF i > n THEN 0
  ELSE IF a[i] # b[i] THEN 1
  ELSE memcmp_from(a, b, i + 1, n)

memcmp(a, b, n) == memcmp_from(a, b, 1, n)

(* ------------------------------------------------------------------ *)
(* The operations, as functions of the registry state                   *)
(*   st = [contexts, heap, released, ret, slot, freed, nslots, secret]  *)
(* contexts: dal_contexts; heap: the context chunks; released: images   *)
(* of the slot chunks given back to the allocator; ret / slot: the      *)
(* value returned; freed / nslots: context chunks and number of slot    *)
(* chunks passed to kzfree by the call; secret: whether one of those    *)
(* slot chunks held key bytes when the call began.                      *)
(* ------------------------------------------------------------------ *)
\* list_for_each_safe over ctx->slots: list_del + kzfree of every slot.
HoldsKey(slot) == \E i \in DOMAIN slot.wrapped_key : slot.wrapped_key[i] # 0

\* Mutant: the slots are released with kfree, their bytes left as they are.
RECURSIVE deinit_slots_kfree(_, _)
deinit_slots_kfree(slots, rel) ==
  IF slots = <<>> THEN rel
  ELSE deinit_slots_kfree(list_del(slots, 1), rel \cup {Head(slots)})

RECURSIVE deinit_slots(_, _)
deinit_slots(slots, rel) ==
  IF slots = <<>> THEN rel
  ELSE deinit_slots(list_del(slots, 1), rel \cup {kzfree(Head(slots))})

deinit_context_struct(st, ctx) ==
  IF ctx = NULL THEN st
  ELSE [st EXCEPT !.heap[ctx].slots = <<>>,
                  !.released = deinit_slots(st.heap[ctx].slots, @),
                  !.nslots = @ + Len(st.heap[ctx].slots),
                  !.secret = @ \/ \E i \in DOMAIN st.heap[ctx].slots :
                                     HoldsKey(st.heap[ctx].slots[i])]

\* Mutant: the context is unlinked and released, its slots are not.
free_item_leak(st, i) ==
  LET item == st.contexts[i]
  IN [st EXCEPT !.contexts = list_del(@, i),
                !.heap[item] = kzfree(@),
                !.freed = Append(@, item)]

\* deinit_context_struct(item); list_del(pos); kzfree(item);
\* for the entry at position i of the registry.
free_item(st, i) ==
  LET item == st.contexts[i]
      d == deinit_context_struct(st, item)
  IN [d EXCEPT !.contexts = list_del(@, i),
               !.heap[item] = kzfree(@),
               !.freed = Append(@, item)]

\* Mutant: the loop stops after the first context.
dal_keystore_free_contexts_once(st) ==
  IF st.contexts = <<>> THEN st ELSE free_item(st, 1)

RECURSIVE dal_keystore_free_contexts(_)
dal_keystore_free_contexts(st) ==
  IF st.contexts = <<>> THEN st
  ELSE dal_keystore_free_contexts(free_item(st, 1))

\* list_for_each(pos, &dal_contexts) cnt++;
RECURSIVE count_contexts(_)
count_contexts(list) ==
  IF list = <<>> THEN 0 ELSE 1 + count_contexts(Tail(list))

\* Mutant: the capacity check is off by one.
allocate_context_insert_le(st, cnt, mem) ==
  IF cnt <= DAL_KEYSTORE_CLIENTS_MAX /\ mem # NULL
  THEN [st EXCEPT !.heap[mem] = init_context_struct,
                  !.contexts = list_add(mem, @),
                  !.ret = mem]
  ELSE [st EXCEPT !.ret = NULL]

\* The part of dal_keystore_allocate_context after the count: the capacity
\* check, the allocation and the insertion.  mem is what kzalloc returns
\* when it is called: NULL or an unused chunk.
allocate_context_insert(st, cnt, mem) ==
  IF cnt < DAL_KEYSTORE_CLIENTS_MAX /\ mem # NULL
  THEN [st EXCEPT !.heap[mem] = init_context_struct,
                  !.contexts = list_add(mem, @),
                  !.ret = mem]
  ELSE [st EXCEPT !.ret = NULL]

dal_keystore_allocate_context(st, mem) ==
  allocate_context_insert(st, count_contexts(st.contexts), mem)

\* Position of the first registry entry that is ctx, 0 if none.
RECURSIVE find_pos_ctx(_, _, _)
find_pos_ctx(list, ctx, i) ==
  IF i > Len(list) THEN 0
  ELSE IF list[i] = ctx THEN i
  ELSE find_pos_ctx(list, ctx, i + 1)

dal_keystore_free_context_ctx(st, ctx) ==
  IF ctx = NULL THEN [st EXCEPT !.ret = -EFAULT]
  ELSE LET i == find_pos_ctx(st.contexts, ctx, 1) IN
       IF i # 0 THEN [free_item(st, i) EXCEPT !.ret = 0]
       ELSE [st EXCEPT !.ret = -EINVAL]

\* Position of the first registry entry whose client_ticket equals the
\* given one in its first n bytes, 0 if none.
RECURSIVE find_pos_ticket(_, _, _, _)
find_pos_ticket(st, client_ticket, n, i) ==
  IF i > Len(st.contexts) THEN 0
  ELSE IF memcmp(client_ticket, st.heap[st.contexts[i]].client_ticket, n) = 0
       THEN i
  ELSE find_pos_ticket(st, client_ticket, n, i + 1)

\* Mutant: the matching context is torn down but left on the list.
dal_keystore_free_context_ticket_nodel(st, client_ticket) ==
  IF client_ticket = NullTicket THEN [st EXCEPT !.ret = -EFAULT]
  ELSE LET i == find_pos_ticket(st, client_ticket,
                                KEYSTORE_CLIENT_TICKET_SIZE, 1) IN
       IF i # 0
       THEN [deinit_context_struct(st, st.contexts[i]) EXCEPT !.ret = 0]
       ELSE [st EXCEPT !.ret = -EINVAL]

\* Mutant: the last matching context of the registry is destroyed.
dal_keystore_free_context_ticket_last(st, client_ticket) ==
  IF client_ticket = NullTicket THEN [st EXCEPT !.ret = -EFAULT]
  ELSE LET hits == {i \in 1..Len(st.contexts) :
                      memcmp(client_ticket,
                             st.heap[st.contexts[i]].client_ticket,
                             KEYSTORE_CLIENT_TICKET_SIZE) = 0} IN
       IF hits # {}
       THEN [free_item(st, CHOOSE i \in hits : \A j \in hits : j <= i)
               EXCEPT !.ret = 0]
       ELSE [st EXCEPT !.ret = -EINVAL]

dal_keystore_free_context_ticket(st, client_ticket) ==
  IF client_ticket = NullTicket THEN [st EXCEPT !.ret = -EFAULT]
  ELSE LET i == find_pos_ticket(st, client_ticket,
                                KEYSTORE_CLIENT_TICKET_SIZE, 1) IN
       IF i # 0 THEN [free_item(st, i) EXCEPT !.ret = 0]
       ELSE [st EXCEPT !.ret = -EINVAL]

\* Mutant: the comparison stops one byte short of the ticket size.
dal_keystore_find_context_ticket_short(st, client_ticket) ==
  IF client_ticket = NullTicket THEN [st EXCEPT !.ret = NULL]
  ELSE LET i == find_pos_ticket(st, client_ticket,
                                KEYSTORE_CLIENT_TICKET_SIZE - 1, 1) IN
       IF i # 0 THEN [st EXCEPT !.ret = st.contexts[i]]
       ELSE [st EXCEPT !.ret = NULL]

dal_keystore_find_context_ticket(st, client_ticket) ==
  IF client_ticket = NullTicket THEN [st EXCEPT !.ret = NULL]
  ELSE LET i == find_pos_ticket(st, client_ticket,
                                KEYSTORE_CLIENT_TICKET_SIZE, 1) IN
       IF i # 0 THEN [st EXCEPT !.ret = st.contexts[i]]
       ELSE [st EXCEPT !.ret = NULL]

\* Position in ctx->slots of the first slot whose slot_id is slot_id, 0 if
\* none.
RECURSIVE find_pos_slot(_, _, _)
find_pos_slot(slots, slot_id, i) ==
  IF i > Len(slots) THEN 0
  ELSE IF slots[i].slot_id = slot_id THEN i
  ELSE find_pos_slot(slots, slot_id, i + 1)

\* Mutant: only the first slot of the list is looked at.
dal_keystore_find_slot_id_first(st, ctx, slot_id) ==
  IF ctx = NULL \/ slot_id < 0 \/ slot_id >= DAL_KEYSTORE_SLOTS_MAX
  THEN <<>>
  ELSE IF st.heap[ctx].slots # <<>> /\ st.heap[ctx].slots[1].slot_id = slot_id
       THEN <<st.heap[ctx].slots[1]>> ELSE <<>>

\* The slot found, as a sequence: << >> is NULL, <<s>> points to s.
dal_keystore_find_slot_id(st, ctx, slot_id) ==
  IF ctx = NULL \/ slot_id < 0 \/ slot_id >= DAL_KEYSTORE_SLOTS_MAX
  THEN <<>>
  ELSE LET i == find_pos_slot(st.heap[ctx].slots, slot_id, 1) IN
       IF i # 0 THEN <<st.heap[ctx].slots[i]>> ELSE <<>>

\* Mutant: an id counts as used when a slot of any context has it.
RECURSIVE lowest_unused_id_global(_, _, _)
lowest_unused_id_global(st, ctx, id) ==
  IF id < DAL_KEYSTORE_SLOTS_MAX
     /\ \E c \in DOMAIN st.heap : dal_keystore_find_slot_id(st, c, id) # <<>>
  THEN lowest_unused_id_global(st, ctx, id + 1)
  ELSE id

\* Mutant: the next id is the number of slots instead of the lowest unused.
lowest_unused_id_count(st, ctx, id) ==
  IF Len(st.heap[ctx].slots) < DAL_KEYSTORE_SLOTS_MAX
  THEN Len(st.heap[ctx].slots)
  ELSE DAL_KEYSTORE_SLOTS_MAX

\* for (id = 0; id < DAL_KEYSTORE_SLOTS_MAX; id++)
\*     if (!dal_keystore_find_slot_id(ctx, id)) break;
RECURSIVE lowest_unused_id(_, _, _)
lowest_unused_id(st, ctx, id) ==
  IF id < DAL_KEYSTORE_SLOTS_MAX /\ dal_keystore_find_slot_id(st, ctx, id) # <<>>
  THEN lowest_unused_id(st, ctx, id + 1)
  ELSE id

\* Mutant: the slot is inserted without the check that an id was found.
allocate_slot_insert_unchecked(st, ctx, id, have_mem) ==
  IF have_mem
  THEN LET item == [ZeroSlot EXCEPT !.slot_id = id] IN
       [st EXCEPT !.heap[ctx].slots = list_add(item, @),
                  !.slot = <<item>>]
  ELSE [st EXCEPT !.slot = <<>>]

\* The part of dal_keystore_allocate_slot after the search for an id.
\* have_mem: whether kzalloc succeeds when it is called.
allocate_slot_insert(st, ctx, id, have_mem) ==
  IF id < DAL_KEYSTORE_SLOTS_MAX /\ have_mem
  THEN LET item == [ZeroSlot EXCEPT !.slot_id = id] IN
       [st EXCEPT !.heap[ctx].slots = list_add(item, @),
                  !.slot = <<item>>]
  ELSE [st EXCEPT !.slot = <<>>]

dal_keystore_allocate_slot(st, ctx, have_mem) ==
  IF ctx = NULL THEN [st EXCEPT !.slot = <<>>]
  ELSE allocate_slot_insert(st, ctx, lowest_unused_id(st, ctx, 0), have_mem)

\* Mutant: the slot at the head of the list is unlinked and released.
free_slot_remove_head(st, ctx, i) ==
  [st EXCEPT !.heap[ctx].slots = list_del(@, 1),
             !.released = @ \cup {kzfree(st.heap[ctx].slots[1])},
             !.nslots = @ + 1,
             !.secret = @ \/ HoldsKey(st.heap[ctx].slots[1]),
             !.ret = 0]

\* list_del(pos); kzfree(item); return 0; for the slot at position i.
free_slot_remove(st, ctx, i) ==
  [st EXCEPT !.heap[ctx].slots = list_del(@, i),
             !.released = @ \cup {kzfree(st.heap[ctx].slots[i])},
             !.nslots = @ + 1,
             !.secret = @ \/ HoldsKey(st.heap[ctx].slots[i]),
             !.ret = 0]

\* Mutant: the loop unlinks every slot it passes before comparing its id.
dal_keystore_free_slot_id_unlink(st, ctx, slot_id) ==
  IF ctx = NULL THEN [st EXCEPT !.ret = -EFAULT]
  ELSE IF slot_id < 0 \/ slot_id >= DAL_KEYSTORE_SLOTS_MAX
  THEN [st EXCEPT !.ret = -EINVAL]
  ELSE LET i == find_pos_slot(st.heap[ctx].slots, slot_id, 1) IN
       IF i # 0
       THEN [free_slot_remove(st, ctx, i) EXCEPT
               !.heap[ctx].slots = SubSeq(st.heap[ctx].slots, i + 1,
                                          Len(st.heap[ctx].slots))]
       ELSE [st EXCEPT !.heap[ctx].slots = <<>>, !.ret = -EINVAL]

\* Mutant: a NULL context is reported like an id out of range.
dal_keystore_free_slot_id_nullinval(st, ctx, slot_id) ==
  IF ctx = NULL \/ slot_id < 0 \/ slot_id >= DAL_KEYSTORE_SLOTS_MAX
  THEN [st EXCEPT !.ret = -EINVAL]
  ELSE LET i == find_pos_slot(st.heap[ctx].slots, slot_id, 1) IN
       IF i # 0 THEN free_slot_remove(st, ctx, i)
       ELSE [st EXCEPT !.ret = -EINVAL]

dal_keystore_free_slot_id(st, ctx, slot_id) ==
  IF ctx = NULL THEN [st EXCEPT !.ret = -EFAULT]
  ELSE IF slot_id < 0 \/ slot_id >= DAL_KEYSTORE_SLOTS_MAX
  THEN [st EXCEPT !.ret = -EINVAL]
  ELSE LET i == find_pos_slot(st.heap[ctx].slots, slot_id, 1) IN
       IF i # 0 THEN free_slot_remove(st, ctx, i)
       ELSE [st EXCEPT !.ret = -EINVAL]

\* Mutant: the dump unlinks the slots it walks over.
dal_keystore_dump_ctx_drain(st, ctx) ==
  IF ctx = NULL THEN st ELSE [st EXCEPT !.heap[ctx].slots = <<>>]

\* The dump reads the context and writes the log only.
dal_keystore_dump_ctx(st, ctx) == st

(* ------------------------------------------------------------------ *)
(* Sequential use: one call at a time, each call one step.              *)
(* ------------------------------------------------------------------ *)
LiveCtxs == {c \in CtxAddrs : heap[c].live}

St == [contexts |-> dal_contexts, heap |-> heap, released |-> released,
       ret |-> 0, slot |-> <<>>, freed |-> <<>>, nslots |-> 0,
       secret |-> FALSE]

Call(op, ctx, ticket, id) ==
  [op |-> op, ctx |-> ctx, ticket |-> ticket, id |-> id,
   ret |-> 0, slot |-> <<>>, freed |-> <<>>, nslots |-> 0,
   secret |-> FALSE, stale |-> FALSE]

\* The history after a step with outcome r: the contexts it released leave
\* alloc_order and join ever_freed, the context it allocated is the newest.
History(r) ==
  LET gone == {r.freed[i] : i \in 1..Len(r.freed)}
      Kept(c) == c \notin gone
      new == {c \in CtxAddrs : r.heap[c].live /\ ~heap[c].live}
  IN /\ alloc_order' = SelectSeq(alloc_order, Kept) \o
                         (IF new = {} THEN <<>> ELSE <<CHOOSE c \in new : TRUE>>)
     /\ ever_freed' = ever_freed \cup gone

\* The call returns with outcome r.
Return(call, r) ==
  /\ dal_contexts' = r.contexts
  /\ heap' = r.heap
  /\ released' = r.released
  /\ last' = [call EXCEPT !.ret = r.ret, !.slot = r.slot,
                          !.freed = r.freed, !.nslots = r.nslots,
                          !.secret = r.secret]
  /\ nops' = nops + 1
  /\ History(r)
  /\ UNCHANGED <<thr, corrupt>>

\* owner, chunk, prog, torn: used while a slot is read or erased, see below.
Idle == [pc |-> "idle", ctx |-> NULL, id |-> 0, cnt |-> 0, item |-> 0,
         owner |-> 0, chunk |-> ZeroSlot, prog |-> 0, torn |-> FALSE]

Init ==
  /\ dal_contexts = <<>>
  /\ heap = [c \in CtxAddrs |-> DeadCtx]
  /\ released = {}
  /\ last = Call("init", NULL, NullTicket, 0)
  /\ nops = 0
  /\ thr = [t \in Threads |-> Idle]
  /\ corrupt = FALSE
  /\ alloc_order = <<>>
  /\ ever_freed = {}

FreeContexts ==
  /\ nops < MaxOps
  /\ Return(Call("free_contexts", NULL, NullTicket, 0),
            dal_keystore_free_contexts(St))

AllocateContext ==
  /\ nops < MaxOps
  /\ \E mem \in {NULL} \cup (CtxAddrs \ LiveCtxs) :
       Return(Call("allocate_context", NULL, NullTicket, 0),
              dal_keystore_allocate_context(St, mem))

\* ctx may be any pointer value the caller holds, stale ones included.
\* stale: the caller's reference is to a context that has been released
\* (the chunk at that address may hold a newer context by now).
FreeContextCtx ==
  /\ nops < MaxOps
  /\ \E ctx \in {NULL} \cup CtxAddrs :
       \E stale \in IF ctx \notin ever_freed THEN {FALSE}
                    ELSE IF heap[ctx].live THEN BOOLEAN ELSE {TRUE} :
         Return([Call("free_context_ctx", ctx, NullTicket, 0)
                   EXCEPT !.stale = stale],
                dal_keystore_free_context_ctx(St, ctx))

FreeContextTicket ==
  /\ nops < MaxOps
  /\ \E t \in {NullTicket} \cup Tickets :
       Return(Call("free_context_ticket", NULL, t, 0),
              dal_keystore_free_context_ticket(St, t))

FindContextTicket ==
  /\ nops < MaxOps
  /\ \E t \in {NullTicket} \cup Tickets :
       Return(Call("find_context_ticket", NULL, t, 0),
              dal_keystore_find_context_ticket(St, t))

AllocateSlot ==
  /\ nops < MaxOps
  /\ \E ctx \in {NULL} \cup LiveCtxs, have_mem \in BOOLEAN :
       Return(Call("allocate_slot", ctx, NullTicket, 0),
              dal_keystore_allocate_slot(St, ctx, have_mem))

FreeSlotId ==
  /\ nops < MaxOps
  /\ \E ctx \in {NULL} \cup LiveCtxs, id \in -1..DAL_KEYSTORE_SLOTS_MAX :
       Return(Call("free_slot_id", ctx, NullTicket, id),
              dal_keystore_free_slot_id(St, ctx, id))

FindSlotId ==
  /\ nops < MaxOps
  /\ \E ctx \in {NULL} \cup LiveCtxs, id \in -1..DAL_KEYSTORE_SLOTS_MAX :
       Return(Call("find_slot_id", ctx, NullTicket, id),
              [St EXCEPT !.slot = dal_keystore_find_slot_id(St, ctx, id)])

DumpCtx ==
  /\ nops < MaxOps
  /\ \E ctx \in {NULL} \cup LiveCtxs :
       Return(Call("dump_ctx", ctx, NullTicket, 0),
              dal_keystore_dump_ctx(St, ctx))

\* The caller fills in the ticket of a context it allocated.
SetTicket ==
  /\ nops < MaxOps
  /\ \E ctx \in LiveCtxs, t \in Tickets :
       Return(Call("set_ticket", ctx, t, 0),
              [St EXCEPT !.heap[ctx].client_ticket = t])

\* The owning layer stores key material in a slot it holds.
SetKey ==
  /\ nops < MaxOps
  /\ \E ctx \in LiveCtxs, k \in KeyImages :
       \E i \in 1..Len(heap[ctx].slots) :
         Return(Call("set_key", ctx, NullTicket, heap[ctx].slots[i].slot_id),
                [St EXCEPT !.heap[ctx].slots[i].wrapped_key = k.wrapped_key,
                           !.heap[ctx].slots[i].wrapped_key_size =
                              k.wrapped_key_size])

Next ==
  \/ FreeContexts
  \/ AllocateContext
  \/ FreeContextCtx
  \/ FreeContextTicket
  \/ FindContextTicket
  \/ AllocateSlot
  \/ FreeSlotId
  \/ FindSlotId
  \/ DumpCtx
  \/ SetTicket
  \/ SetKey

Spec == Init /\ [][Next]_vars

(* ------------------------------------------------------------------ *)
(* Concurrent use.  The functions take no lock, so a call of one thread  *)
(* is two steps, the scan or check and then the insertion or removal    *)
(* (kzalloc(GFP_KERNEL) may sleep in between), and the steps of the      *)
(* threads interleave.                                                   *)
(*                                                                       *)
(* thr[t].item points to a slot of thr[t].ctx: it is the slot's position *)
(* counted from the tail of the list, which insertions at the head leave *)
(* alone; 0 once the slot has been released.                             *)
(* ------------------------------------------------------------------ *)
\* Another thread released the slot at tail position k of ctx.
SlotGone(th, ctx, k) ==
  [u \in Threads |->
     IF th[u].pc = "fs_remove" /\ th[u].ctx = ctx
     THEN [th[u] EXCEPT !.item = IF @ = k THEN 0
                                 ELSE IF @ > k THEN @ - 1 ELSE @]
     ELSE th[u]]

\* Another thread released ctx and all its slots.
CtxGone(th, ctx) ==
  [u \in Threads |->
     IF th[u].pc = "fs_remove" /\ th[u].ctx = ctx
     THEN [th[u] EXCEPT !.item = 0]
     ELSE th[u]]

Commit(r) ==
  /\ dal_contexts' = r.contexts
  /\ heap' = r.heap
  /\ released' = r.released
  /\ History(r)

\* A step on a chunk that has been released already: the list or the
\* allocator is corrupted and nothing can be said of what follows.
Corrupt(t) ==
  /\ corrupt' = TRUE
  /\ thr' = [thr EXCEPT ![t] = Idle]
  /\ UNCHANGED <<dal_contexts, heap, released, alloc_order, ever_freed>>

\* dal_keystore_allocate_context, the count.
CAllocateContextScan(t) ==
  /\ ~corrupt /\ thr[t].pc = "idle" /\ nops < MaxOps
  /\ thr' = [thr EXCEPT ![t] = [Idle EXCEPT !.pc = "ac_insert",
                                           !.cnt = count_contexts(dal_contexts)]]
  /\ nops' = nops + 1
  /\ UNCHANGED <<dal_contexts, heap, released, last, corrupt,
                 alloc_order, ever_freed>>

\* dal_keystore_allocate_context, the check and the insertion.
CAllocateContextInsert(t) ==
  /\ ~corrupt /\ thr[t].pc = "ac_insert"
  /\ \E mem \in {NULL} \cup (CtxAddrs \ LiveCtxs) :
       Commit(allocate_context_insert(St, thr[t].cnt, mem))
  /\ thr' = [thr EXCEPT ![t] = Idle]
  /\ UNCHANGED <<last, nops, corrupt>>

\* dal_keystore_allocate_slot, the search for the lowest unused id.
CAllocateSlotScan(t) ==
  /\ ~corrupt /\ thr[t].pc = "idle" /\ nops < MaxOps
  /\ \E ctx \in LiveCtxs :
       thr' = [thr EXCEPT ![t] = [Idle EXCEPT !.pc = "as_insert",
                                              !.ctx = ctx,
                                              !.id = lowest_unused_id(St, ctx, 0)]]
  /\ nops' = nops + 1
  /\ UNCHANGED <<dal_contexts, heap, released, last, corrupt,
                 alloc_order, ever_freed>>

\* dal_keystore_allocate_slot, the allocation and the insertion.
CAllocateSlotInsert(t) ==
  /\ ~corrupt /\ thr[t].pc = "as_insert"
  /\ \E have_mem \in BOOLEAN :
       IF thr[t].id < DAL_KEYSTORE_SLOTS_MAX /\ have_mem
          /\ ~heap[thr[t].ctx].live
       THEN Corrupt(t)
       ELSE /\ Commit(allocate_slot_insert(St, thr[t].ctx, thr[t].id, have_mem))
            /\ thr' = [thr EXCEPT ![t] = Idle]
            /\ UNCHANGED corrupt
  /\ UNCHANGED <<last, nops>>

\* dal_keystore_free_slot_id, the search for the slot.
CFreeSlotScan(t) ==
  /\ ~corrupt /\ thr[t].pc = "idle" /\ nops < MaxOps
  /\ \E ctx \in LiveCtxs, id \in 0..(DAL_KEYSTORE_SLOTS_MAX - 1) :
       LET i == find_pos_slot(heap[ctx].slots, id, 1) IN
       thr' = [thr EXCEPT ![t] =
                 IF i = 0 THEN Idle
                 ELSE [Idle EXCEPT !.pc = "fs_remove", !.ctx = ctx, !.id = id,
                                   !.item = Len(heap[ctx].slots) - i + 1]]
  /\ nops' = nops + 1
  /\ UNCHANGED <<dal_contexts, heap, released, last, corrupt,
                 alloc_order, ever_freed>>

\* dal_keystore_free_slot_id, list_del and kzfree of the slot found.
CFreeSlotRemove(t) ==
  /\ ~corrupt /\ thr[t].pc = "fs_remove"
  /\ IF thr[t].item = 0
     THEN Corrupt(t)
     ELSE LET ctx == thr[t].ctx
              i == Len(heap[ctx].slots) - thr[t].item + 1
          IN /\ Commit(free_slot_remove(St, ctx, i))
             /\ thr' = [SlotGone(thr, ctx, thr[t].item) EXCEPT ![t] = Idle]
             /\ UNCHANGED corrupt
  /\ UNCHANGED <<last, nops>>

\* dal_keystore_free_context_ctx, the search for the context.
CFreeContextScan(t) ==
  /\ ~corrupt /\ thr[t].pc = "idle" /\ nops < MaxOps
  /\ \E ctx \in CtxAddrs :
       thr' = [thr EXCEPT ![t] =
                 IF find_pos_ctx(dal_contexts, ctx, 1) = 0 THEN Idle
                 ELSE [Idle EXCEPT !.pc = "fc_remove", !.ctx = ctx]]
  /\ nops' = nops + 1
  /\ UNCHANGED <<dal_contexts, heap, released, last, corrupt,
                 alloc_order, ever_freed>>

\* dal_keystore_free_context_ctx, the teardown of the context found.
CFreeContextRemove(t) ==
  /\ ~corrupt /\ thr[t].pc = "fc_remove"
  /\ LET i == find_pos_ctx(dal_contexts, thr[t].ctx, 1) IN
     IF i = 0
     THEN Corrupt(t)
     ELSE /\ Commit(free_item(St, i))
          /\ thr' = [CtxGone(thr, thr[t].ctx) EXCEPT ![t] = Idle]
          /\ UNCHANGED corrupt
  /\ UNCHANGED <<last, nops>>

NextConc ==
  \E t \in Threads :
    \/ CAllocateContextScan(t)
    \/ CAllocateContextInsert(t)
    \/ CAllocateSlotScan(t)
    \/ CAllocateSlotInsert(t)
    \/ CFreeSlotScan(t)
    \/ CFreeSlotRemove(t)
    \/ CFreeContextScan(t)
    \/ CFreeContextRemove(t)

SpecConc == Init /\ [][NextConc]_vars

(* ------------------------------------------------------------------ *)
(* Concurrent allocate_slot calls, each thread on a context of its own.  *)
(* The contexts are set up by calls made while no thread is in a call.   *)
(* ------------------------------------------------------------------ *)
AllIdle == \A t \in Threads : thr[t].pc = "idle"

DAllocateContext == AllIdle /\ AllocateContext

DAllocateSlot == AllIdle /\ AllocateSlot

DFreeSlotId == AllIdle /\ FreeSlotId

\* The search of allocate_slot on a context no other thread is working on.
DAllocateSlotScan(t) ==
  /\ CAllocateSlotScan(t)
  /\ \A u \in Threads \ {t} :
       thr[u].pc = "idle" \/ thr[u].ctx # thr'[t].ctx

NextDistinct ==
  \/ DAllocateContext
  \/ DAllocateSlot
  \/ DFreeSlotId
  \/ \E t \in Threads : DAllocateSlotScan(t)
  \/ \E t \in Threads : CAllocateSlotInsert(t)

SpecDistinct == Init /\ [][NextDistinct]_vars

(* ------------------------------------------------------------------ *)
(* A reader next to free_slot.  dal_keystore_dump_ctx walks ctx->slots   *)
(* and reads the key bytes of each slot; dal_keystore_free_slot_id       *)
(* unlinks a slot and hands it to kzfree, which zeroes the chunk byte by *)
(* byte and then releases it.  Neither takes a lock.                     *)
(*                                                                       *)
(* A reader in "rd" points to a slot: thr[t].item > 0 is its position    *)
(* from the tail of the list; 0 means thread thr[t].owner has unlinked   *)
(* it and holds it in thr[owner].chunk, zeroed up to byte thr[owner].prog;*)
(* -1 means the chunk has been released.  thr[t].id counts bytes read.   *)
(* ------------------------------------------------------------------ *)
RSetupContext == AllIdle /\ AllocateContext

RSetupSlot == AllIdle /\ AllocateSlot

RSetupKey == AllIdle /\ SetKey

\* Thread u unlinked the slot at tail position k of ctx.
Unlinked(th, ctx, k, u) ==
  [v \in Threads |->
     IF th[v].pc = "rd" /\ th[v].ctx = ctx /\ th[v].item > 0
     THEN IF th[v].item = k THEN [th[v] EXCEPT !.item = 0, !.owner = u]
          ELSE IF th[v].item > k THEN [th[v] EXCEPT !.item = @ - 1]
          ELSE th[v]
     ELSE th[v]]

\* Thread u released the chunk it had unlinked.
Released(th, u) ==
  [v \in Threads |->
     IF th[v].pc = "rd" /\ th[v].item = 0 /\ th[v].owner = u
     THEN [th[v] EXCEPT !.item = -1]
     ELSE th[v]]

\* dal_keystore_dump_ctx: the second loop reaches a slot of ctx.
RDumpVisit(t) ==
  /\ ~corrupt /\ thr[t].pc = "idle" /\ nops < MaxOps
  /\ \E ctx \in LiveCtxs :
       \E i \in 1..Len(heap[ctx].slots) :
         thr' = [thr EXCEPT ![t] =
                   [Idle EXCEPT !.pc = "rd", !.ctx = ctx,
                                !.item = Len(heap[ctx].slots) - i + 1]]
  /\ nops' = nops + 1
  /\ UNCHANGED <<dal_contexts, heap, released, last, corrupt,
                 alloc_order, ever_freed>>

\* keystore_hexdump reads the next byte of slot->wrapped_key.  The read is
\* torn when the chunk is released, or zeroed in part with key bytes left.
RDumpReadByte(t) ==
  /\ ~corrupt /\ thr[t].pc = "rd"
  /\ thr[t].id < KEYSTORE_MAX_WRAPPED_KEY_SIZE
  /\ LET o == thr[t].owner
         bad == \/ thr[t].item = -1
                \/ /\ thr[t].item = 0
                   /\ thr[o].prog > 0
                   /\ HoldsKey(thr[o].chunk)
     IN thr' = [thr EXCEPT ![t].id = @ + 1, ![t].torn = @ \/ bad]
  /\ UNCHANGED <<dal_contexts, heap, released, last, nops, corrupt,
                 alloc_order, ever_freed>>

\* The dump has read the whole key and moves on.
RDumpDone(t) ==
  /\ ~corrupt /\ thr[t].pc = "rd"
  /\ thr[t].id = KEYSTORE_MAX_WRAPPED_KEY_SIZE
  /\ thr' = [thr EXCEPT ![t] = Idle]
  /\ UNCHANGED <<dal_contexts, heap, released, last, nops, corrupt,
                 alloc_order, ever_freed>>

\* dal_keystore_free_slot_id: list_del(pos).
EUnlink(t) ==
  /\ ~corrupt /\ thr[t].pc = "fs_remove"
  /\ IF thr[t].item = 0
     THEN Corrupt(t)
     ELSE LET ctx == thr[t].ctx
              i == Len(heap[ctx].slots) - thr[t].item + 1
              th == Unlinked(SlotGone(thr, ctx, thr[t].item), ctx,
                             thr[t].item, t)
          IN /\ heap' = [heap EXCEPT ![ctx].slots = list_del(@, i)]
             /\ thr' = [th EXCEPT ![t].pc = "fs_erase",
                                  ![t].chunk = heap[ctx].slots[i],
                                  ![t].prog = 0]
             /\ UNCHANGED <<dal_contexts, released, corrupt,
                            alloc_order, ever_freed>>
  /\ UNCHANGED <<last, nops>>

\* kzfree, the memset: one more byte of the chunk is zero.
EMemset(t) ==
  /\ ~corrupt /\ thr[t].pc = "fs_erase"
  /\ thr[t].prog < KEYSTORE_MAX_WRAPPED_KEY_SIZE
  /\ thr' = [thr EXCEPT ![t].prog = @ + 1,
                        ![t].chunk.wrapped_key[thr[t].prog + 1] = 0]
  /\ UNCHANGED <<dal_contexts, heap, released, last, nops, corrupt,
                 alloc_order, ever_freed>>

\* kzfree, the end of the memset and the kfree; free_slot_id returns 0.
EKfree(t) ==
  /\ ~corrupt /\ thr[t].pc = "fs_erase"
  /\ thr[t].prog = KEYSTORE_MAX_WRAPPED_KEY_SIZE
  /\ released' = released \cup {kzfree(thr[t].chunk)}
  /\ thr' = [Released(thr, t) EXCEPT ![t] = Idle]
  /\ UNCHANGED <<dal_contexts, heap, last, nops, corrupt,
                 alloc_order, ever_freed>>

NextReader ==
  \/ RSetupContext
  \/ RSetupSlot
  \/ RSetupKey
  \/ \E t \in Threads : RDumpVisit(t)
  \/ \E t \in Threads : RDumpReadByte(t)
  \/ \E t \in Threads : RDumpDone(t)
  \/ \E t \in Threads : CFreeSlotScan(t)
  \/ \E t \in Threads : EUnlink(t)
  \/ \E t \in Threads : EMemset(t)
  \/ \E t \in Threads : EKfree(t)

SpecReader == Init /\ [][NextReader]_vars

(* ------------------------------------------------------------------ *)
(* Properties of sequential use.                                        *)
(* ------------------------------------------------------------------ *)
SlotIds(c) == {heap[c].slots[i].slot_id : i \in 1..Len(heap[c].slots)}

\* C1: the registry never holds more than DAL_KEYSTORE_CLIENTS_MAX live
\* contexts, and allocate_context called while it holds exactly that many
\* returns NULL and adds nothing.
C1_ContextCapacity ==
  /\ Len(dal_contexts) <= DAL_KEYSTORE_CLIENTS_MAX
  /\ [][/\ Len(dal_contexts') <= DAL_KEYSTORE_CLIENTS_MAX
        /\ Cardinality(LiveCtxs') <= DAL_KEYSTORE_CLIENTS_MAX
        /\ (last'.op = "allocate_context"
              /\ Len(dal_contexts) = DAL_KEYSTORE_CLIENTS_MAX)
            => /\ last'.ret = NULL
               /\ dal_contexts' = dal_contexts
               /\ heap' = heap]_vars

C1_Witness ==
  /\ last.op = "allocate_context"
  /\ last.ret = NULL
  /\ Len(dal_contexts) = DAL_KEYSTORE_CLIENTS_MAX

\* C2: no context ever holds more than DAL_KEYSTORE_SLOTS_MAX slots, and
\* allocate_slot called on a context that holds exactly that many returns
\* NULL and adds nothing.
C2_SlotCapacity ==
  /\ \A c \in CtxAddrs : Len(heap[c].slots) <= DAL_KEYSTORE_SLOTS_MAX
  /\ [][/\ \A c \in CtxAddrs : Len(heap'[c].slots) <= DAL_KEYSTORE_SLOTS_MAX
        /\ (last'.op = "allocate_slot" /\ last'.ctx # NULL
              /\ Len(heap[last'.ctx].slots) = DAL_KEYSTORE_SLOTS_MAX)
            => /\ last'.slot = <<>>
               /\ heap' = heap
               /\ dal_contexts' = dal_contexts]_vars

C2_Witness ==
  /\ last.op = "allocate_slot"
  /\ last.ctx # NULL
  /\ last.slot = <<>>
  /\ Len(heap[last.ctx].slots) = DAL_KEYSTORE_SLOTS_MAX

\* C3: a successful allocate_slot(ctx) returns a slot whose id is the
\* smallest id in [0, DAL_KEYSTORE_SLOTS_MAX) that no live slot of ctx had
\* when the call was made.
C3_LowestUnusedId ==
  [][(last'.op = "allocate_slot" /\ last'.slot # <<>>)
     => LET free == (0..(DAL_KEYSTORE_SLOTS_MAX - 1)) \ SlotIds(last'.ctx) IN
        /\ last'.slot[1].slot_id \in free
        /\ \A i \in free : last'.slot[1].slot_id <= i
        /\ heap'[last'.ctx].slots = <<last'.slot[1]>> \o heap[last'.ctx].slots
    ]_vars

\* An id that was released is handed out again: the new slot has id 0 and a
\* slot allocated before it has a larger id.
C3_Witness ==
  /\ last.op = "allocate_slot"
  /\ last.slot # <<>>
  /\ last.slot[1].slot_id = 0
  /\ \E i \in SlotIds(last.ctx) : i > 0

\* C4: no two live slots of a context have the same slot_id, and every
\* slot_id lies in [0, DAL_KEYSTORE_SLOTS_MAX).
C4_SlotIdsUnique ==
  \A c \in CtxAddrs :
    /\ \A i, j \in 1..Len(heap[c].slots) :
         heap[c].slots[i].slot_id = heap[c].slots[j].slot_id => i = j
    /\ \A i \in 1..Len(heap[c].slots) :
         heap[c].slots[i].slot_id \in 0..(DAL_KEYSTORE_SLOTS_MAX - 1)

\* A full context whose head slot has the lowest id: that id was freed and
\* allocated again.
C4_Witness ==
  \E c \in LiveCtxs :
    /\ Len(heap[c].slots) = DAL_KEYSTORE_SLOTS_MAX
    /\ heap[c].slots[1].slot_id = 0

SameBytes(a, b) == \A i \in 1..KEYSTORE_CLIENT_TICKET_SIZE : a[i] = b[i]

DiffBytes(a, b) == {i \in 1..KEYSTORE_CLIENT_TICKET_SIZE : a[i] # b[i]}

\* C5: find_context_by_ticket(t), t not NULL, returns a context of the
\* registry whose client_ticket equals t in every byte when there is one,
\* and NULL when there is none.
C5_FindByTicket ==
  (last.op = "find_context_ticket" /\ last.ticket # NullTicket)
  => LET match == {i \in 1..Len(dal_contexts) :
                     SameBytes(heap[dal_contexts[i]].client_ticket, last.ticket)}
     IN IF match = {}
        THEN last.ret = NULL
        ELSE /\ last.ret \in {dal_contexts[i] : i \in match}
             /\ heap[last.ret].live

\* A ticket is found while another live context's ticket differs from it in
\* one byte only.
C5_Witness ==
  /\ last.op = "find_context_ticket"
  /\ last.ret # NULL
  /\ \E c \in LiveCtxs :
       Cardinality(DiffBytes(heap[c].client_ticket, last.ticket)) = 1

WithTicketIn(list, h, t) ==
  {i \in 1..Len(list) : SameBytes(h[list[i]].client_ticket, t)}

WithTicket(t) == WithTicketIn(dal_contexts, heap, t)

\* C6 as stated: after a successful free_context_by_ticket(t), a
\* find_context_by_ticket(t) issued next returns NULL.
C6_FindAfterFreeFails ==
  (last.op = "free_context_ticket" /\ last.ret = 0)
  => dal_keystore_find_context_ticket(St, last.ticket).ret = NULL

\* C6, amended: a successful free_context_by_ticket(t) takes exactly one
\* context with ticket t off the registry; a find_context_by_ticket(t) issued
\* next returns NULL exactly when that context was the only one with ticket
\* t, and otherwise returns a remaining context with ticket t.
C6_FindAfterFree ==
  [][(last'.op = "free_context_ticket" /\ last'.ret = 0)
     => LET found == dal_keystore_find_context_ticket(St', last'.ticket).ret IN
        /\ Len(last'.freed) = 1
        /\ \A i \in 1..Len(dal_contexts') : dal_contexts'[i] # last'.freed[1]
        /\ Cardinality(WithTicketIn(dal_contexts', heap', last'.ticket)) =
             Cardinality(WithTicket(last'.ticket)) - 1
        /\ (found = NULL) <=> (Cardinality(WithTicket(last'.ticket)) = 1)
        /\ found # NULL => /\ found # last'.freed[1]
                           /\ heap'[found].client_ticket = last'.ticket
    ]_vars

\* The only context with the ticket is freed, while another context lives.
C6_Witness ==
  /\ last.op = "free_context_ticket"
  /\ last.ret = 0
  /\ WithTicket(last.ticket) = {}
  /\ dal_contexts # <<>>

RECURSIVE SumSlots(_)
SumSlots(S) ==
  IF S = {} THEN 0
  ELSE LET c == CHOOSE x \in S : TRUE IN Len(heap[c].slots) + SumSlots(S \ {c})

\* C7: free_all_contexts passes every context of the registry to kzfree
\* exactly once, releases all their slots and leaves the registry empty; on
\* an empty registry it changes nothing.
C7_FreeAll ==
  [][(last'.op = "free_contexts")
     => /\ dal_contexts' = <<>>
        /\ LiveCtxs' = {}
        /\ \A c \in CtxAddrs : heap'[c] = DeadCtx
        /\ Len(last'.freed) = Len(dal_contexts)
        /\ \A i \in 1..Len(dal_contexts) :
             Cardinality({j \in 1..Len(last'.freed) :
                            last'.freed[j] = dal_contexts[i]}) = 1
        /\ last'.nslots = SumSlots(LiveCtxs)
        /\ (dal_contexts = <<>>
             => heap' = heap /\ released' = released /\ last'.freed = <<>>)
    ]_vars

C7_Witness ==
  /\ last.op = "free_contexts"
  /\ Len(last.freed) = DAL_KEYSTORE_CLIENTS_MAX
  /\ last.nslots > 0

\* C8: every slot chunk given back to the allocator holds only zero bytes
\* in its wrapped-key buffer, on every path that releases a slot.
C8_ReleasedKeysZero ==
  \A img \in released :
    /\ \A i \in DOMAIN img.wrapped_key : img.wrapped_key[i] = 0
    /\ img.wrapped_key_size = 0

\* A slot that held key bytes has been released by a context free.
C8_Witness ==
  /\ last.secret
  /\ last.op \in {"free_context_ctx", "free_context_ticket", "free_contexts"}
  /\ released # {}

Failed(l) ==
  \/ l.op \in {"allocate_context", "find_context_ticket"} /\ l.ret = NULL
  \/ l.op \in {"allocate_slot", "find_slot_id"} /\ l.slot = <<>>
  \/ l.op \in {"free_context_ctx", "free_context_ticket", "free_slot_id"}
       /\ l.ret < 0

\* C9: an allocate, find or free call that returns a failure leaves the
\* registry as it was: the same contexts in the same order, with the same
\* tickets and the same slots.
C9_FailureChangesNothing ==
  [][Failed(last')
     => /\ dal_contexts' = dal_contexts
        /\ heap' = heap
        /\ released' = released
        /\ last'.freed = <<>> /\ last'.nslots = 0
    ]_vars

\* free_slot fails on a context that holds slots.
C9_Witness ==
  /\ last.op = "free_slot_id"
  /\ last.ret = -EINVAL
  /\ last.ctx # NULL
  /\ last.id \in 0..(DAL_KEYSTORE_SLOTS_MAX - 1)
  /\ heap[last.ctx].slots # <<>>

(* ------------------------------------------------------------------ *)
(* Properties of concurrent use.                                        *)
(* ------------------------------------------------------------------ *)
\* C10: under every interleaving of the scan and insert / remove steps of
\* concurrent allocate and free calls, the registry holds at most
\* DAL_KEYSTORE_CLIENTS_MAX contexts, every context holds at most
\* DAL_KEYSTORE_SLOTS_MAX slots, and no two slots of a context share an id.
C10_ConcurrentInvariants ==
  /\ Len(dal_contexts) <= DAL_KEYSTORE_CLIENTS_MAX
  /\ \A c \in CtxAddrs :
       /\ Len(heap[c].slots) <= DAL_KEYSTORE_SLOTS_MAX
       /\ \A i, j \in 1..Len(heap[c].slots) :
            heap[c].slots[i].slot_id = heap[c].slots[j].slot_id => i = j

UniqueIds(slots) ==
  \A i, j \in 1..Len(slots) : slots[i].slot_id = slots[j].slot_id => i = j

\* C11: when threads run allocate_slot concurrently, each on a context of
\* its own, a slot a thread inserts has the lowest id that is free in its
\* context at that moment, and no context ever holds two slots with the
\* same id.
C11_DistinctContexts ==
  [][\A t \in Threads :
       (thr[t].pc = "as_insert" /\ thr'[t].pc = "idle")
       => LET c == thr[t].ctx
              free == (0..(DAL_KEYSTORE_SLOTS_MAX - 1)) \ SlotIds(c)
          IN /\ \A d \in CtxAddrs : UniqueIds(heap'[d].slots)
             /\ \A d \in CtxAddrs \ {c} : heap'[d] = heap[d]
             /\ heap'[c] # heap[c]
                => /\ Len(heap'[c].slots) = Len(heap[c].slots) + 1
                   /\ Tail(heap'[c].slots) = heap[c].slots
                   /\ Head(heap'[c].slots).slot_id \in free
                   /\ \A i \in free : Head(heap'[c].slots).slot_id <= i
    ]_vars

\* Two threads are between the search and the insertion, on two contexts,
\* one of which holds a slot already.
C11_Witness ==
  \E t, u \in Threads :
    /\ thr[t].pc = "as_insert" /\ thr[u].pc = "as_insert"
    /\ thr[t].ctx # thr[u].ctx
    /\ heap[thr[t].ctx].slots # <<>>

InRange(id) == id >= 0 /\ id < DAL_KEYSTORE_SLOTS_MAX

\* C12 as stated: free_slot fails on a NULL context or an id out of range
\* with the code for an invalid argument, and on a valid context and an id
\* in range that no slot has with another code, which tells the two apart.
C12_NotFoundDistinct ==
  (last.op = "free_slot_id" /\ last.ret # 0)
  => IF last.ctx = NULL \/ ~InRange(last.id)
     THEN last.ret < 0
     ELSE last.ret \notin
            {dal_keystore_free_slot_id(St, NULL, last.id).ret,
             dal_keystore_free_slot_id(St, last.ctx, -1).ret,
             dal_keystore_free_slot_id(St, last.ctx, DAL_KEYSTORE_SLOTS_MAX).ret}

\* C12, amended: free_slot returns -EFAULT for a NULL context, -EINVAL for
\* an id out of range, and the same -EINVAL when the context is valid, the
\* id in range and no slot of the context has it; otherwise it returns 0.
C12_FreeSlotErrors ==
  [][(last'.op = "free_slot_id")
     => last'.ret = IF last'.ctx = NULL THEN -EFAULT
                    ELSE IF ~InRange(last'.id) THEN -EINVAL
                    ELSE IF last'.id \notin SlotIds(last'.ctx) THEN -EINVAL
                    ELSE 0
    ]_vars

\* free_slot with an id in range on a live context without slots.
C12_Witness ==
  /\ last.op = "free_slot_id"
  /\ last.ret = -EINVAL
  /\ last.ctx # NULL
  /\ InRange(last.id)
  /\ heap[last.ctx].slots = <<>>

\* C13: a successful free_context_by_identity or free_context_by_ticket
\* takes exactly one context off the registry and releases that context and
\* every slot it owned; every other context keeps its place, its ticket and
\* its slots, and every slot that remains belongs to a context of the
\* registry.
C13_FreeContextFrame ==
  [][(last'.op \in {"free_context_ctx", "free_context_ticket"}
        /\ last'.ret = 0)
     => /\ Len(last'.freed) = 1
        /\ LET c == last'.freed[1]
               Kept(d) == d # c
           IN /\ \E i \in 1..Len(dal_contexts) : dal_contexts[i] = c
              /\ dal_contexts' = SelectSeq(dal_contexts, Kept)
              /\ Len(dal_contexts') = Len(dal_contexts) - 1
              /\ heap'[c] = DeadCtx
              /\ last'.nslots = Len(heap[c].slots)
              /\ \A d \in CtxAddrs \ {c} : heap'[d] = heap[d]
        /\ LiveCtxs' = {dal_contexts'[i] : i \in 1..Len(dal_contexts')}
        /\ \A d \in CtxAddrs \ LiveCtxs' : heap'[d].slots = <<>>
    ]_vars

\* A context that owns slots is freed while another context owns slots.
C13_Witness ==
  /\ last.op \in {"free_context_ctx", "free_context_ticket"}
  /\ last.ret = 0
  /\ last.nslots > 0
  /\ \E d \in LiveCtxs : heap[d].slots # <<>>

\* Positions in alloc_order (oldest first) of the contexts with ticket t.
AgeWithTicket(t) ==
  {i \in 1..Len(alloc_order) : SameBytes(heap[alloc_order[i]].client_ticket, t)}

\* C14 as stated: with several live contexts carrying ticket t,
\* find_context_by_ticket(t) returns the one allocated earliest.
C14_FindReturnsOldest ==
  (last.op = "find_context_ticket" /\ last.ret # NULL)
  => /\ AgeWithTicket(last.ticket) # {}
     /\ \A i \in AgeWithTicket(last.ticket) :
          \E j \in AgeWithTicket(last.ticket) :
            j <= i /\ alloc_order[j] = last.ret

\* C14, amended: find_context_by_ticket(t) returns the first match in list
\* order, and allocate_context inserts at the head of the list, so the
\* context returned is the most recently allocated live context with
\* ticket t.
C14_FindReturnsNewest ==
  (last.op = "find_context_ticket" /\ last.ret # NULL)
  => /\ AgeWithTicket(last.ticket) # {}
     /\ \A i \in AgeWithTicket(last.ticket) :
          \E j \in AgeWithTicket(last.ticket) :
            j >= i /\ alloc_order[j] = last.ret
     /\ \A i \in WithTicket(last.ticket) :
          \E j \in WithTicket(last.ticket) :
            j <= i /\ dal_contexts[j] = last.ret

\* Two live contexts carry the ticket looked up.
C14_Witness ==
  /\ last.op = "find_context_ticket"
  /\ last.ret # NULL
  /\ Cardinality(WithTicket(last.ticket)) >= 2
  /\ \E i \in 1..KEYSTORE_CLIENT_TICKET_SIZE : last.ticket[i] # 0

\* C15: a successful free_slot(ctx, id) removes exactly the slot of ctx
\* with that id; the other slots of ctx keep their order, ids, key bytes
\* and key sizes, and the registry and every other context are unchanged.
C15_FreeSlotFrame ==
  [][(last'.op = "free_slot_id" /\ last'.ret = 0)
     => LET c == last'.ctx
            Other(slot) == slot.slot_id # last'.id
        IN /\ last'.id \in SlotIds(c)
           /\ heap'[c].slots = SelectSeq(heap[c].slots, Other)
           /\ Len(heap'[c].slots) = Len(heap[c].slots) - 1
           /\ heap'[c].client_ticket = heap[c].client_ticket
           /\ heap'[c].live
           /\ \A d \in CtxAddrs \ {c} : heap'[d] = heap[d]
           /\ dal_contexts' = dal_contexts
           /\ last'.nslots = 1 /\ last'.freed = <<>>
    ]_vars

\* A slot is freed while a slot holding key bytes stays in the context,
\* ahead of it in the list.
C15_Witness ==
  /\ last.op = "free_slot_id"
  /\ last.ret = 0
  /\ heap[last.ctx].slots # <<>>
  /\ HoldsKey(heap[last.ctx].slots[1])
  /\ heap[last.ctx].slots[1].slot_id > last.id

\* C16: find_slot, find_context_by_ticket and dump_context leave the
\* registry as it was, whatever their arguments: the same contexts in the
\* same order, with the same tickets and slots, and nothing released.
C16_ReadOnly ==
  [][(last'.op \in {"find_slot_id", "find_context_ticket", "dump_ctx"})
     => /\ dal_contexts' = dal_contexts
        /\ heap' = heap
        /\ released' = released
        /\ last'.freed = <<>> /\ last'.nslots = 0
    ]_vars

\* A context whose slots hold key bytes has been dumped.
C16_Witness ==
  /\ last.op = "dump_ctx"
  /\ last.ctx # NULL
  /\ \E i \in 1..Len(heap[last.ctx].slots) : HoldsKey(heap[last.ctx].slots[i])

\* C17: free_context_by_identity called with a reference to a context that
\* has been freed already fails with -EINVAL (not found) and destroys no
\* live context, also when contexts have been allocated since.
C17_StaleFreeFails ==
  (last.op = "free_context_ctx" /\ last.stale)
  => /\ last.ret = -EINVAL
     /\ last.freed = <<>>
     /\ last.nslots = 0

\* C18: a reader that runs next to free_slot on the same context never
\* reads a key buffer that is erased in part or released already.
C18_NoTornRead == \A t \in Threads : ~thr[t].torn

\* The contexts of the registry list whose ticket is t.
CtxsWithTicket(list, h, t) == {list[i] : i \in WithTicketIn(list, h, t)}

\* C19: free_context_ticket(t) destroys exactly the context that
\* find_context_ticket(t) returns in the state before the call, fails when
\* find returns NULL, and leaves every other context with ticket t in the
\* registry, live and untouched.
C19_FreeSelectsFound ==
  [][last'.op = "free_context_ticket" =>
       LET t == last'.ticket
           found == dal_keystore_find_context_ticket(St, t).ret
       IN /\ (last'.ret = 0) = (found # NULL)
          /\ last'.ret = 0 =>
               /\ last'.freed = <<found>>
               /\ ~heap'[found].live
               /\ \A i \in 1..Len(dal_contexts') : dal_contexts'[i] # found
               /\ \A c \in CtxsWithTicket(dal_contexts, heap, t) \ {found} :
                    /\ c \in CtxsWithTicket(dal_contexts', heap', t)
                    /\ heap'[c] = heap[c]
    ]_vars

\* free by ticket has destroyed one of two contexts that carried the ticket.
C19_Witness ==
  /\ last.op = "free_context_ticket"
  /\ last.ret = 0
  /\ WithTicket(last.ticket) # {}

\* C20: the context allocate_context returns has no slots and an all-zero
\* client_ticket and is in the registry; find_context_ticket with the
\* all-zero ticket returns it and free_context_ticket with the all-zero
\* ticket would destroy it.
C20_FreshContextMatchesZero ==
  [][last'.op = "allocate_context" /\ last'.ret # NULL =>
       LET c == last'.ret
           zero == Zeros(KEYSTORE_CLIENT_TICKET_SIZE)
           r == dal_keystore_free_context_ticket(St', zero)
       IN /\ heap'[c].live
          /\ heap'[c].slots = <<>>
          /\ heap'[c].client_ticket = zero
          /\ \E i \in 1..Len(dal_contexts') : dal_contexts'[i] = c
          /\ dal_keystore_find_context_ticket(St', zero).ret = c
          /\ r.ret = 0
          /\ r.freed = <<c>>
    ]_vars

\* A second context was allocated next to one whose ticket is assigned.
C20_Witness ==
  /\ last.op = "allocate_context"
  /\ last.ret # NULL
  /\ Len(dal_contexts) = 2
  /\ dal_contexts[1] = last.ret
  /\ heap[dal_contexts[2]].client_ticket # Zeros(KEYSTORE_CLIENT_TICKET_SIZE)
====
